---- MODULE Spec2Model ----
(***************************************************************************)
(* Model of the document store of ai-document-writer                       *)
(* (services/documentStorage.js): the documents, document_tags and         *)
(* ai_generation_logs tables, the stored files, and the store operations   *)
(* saveDocument, getDocument, deleteDocument, updateDocument and           *)
(* addDocumentTags, each split at its awaits so that concurrent requests   *)
(* interleave as they do on the event loop; of getUserDocuments and        *)
(* getUserAnalytics, the batch and generate-document routes                *)
(* (routes/UserRoutes.js), and of the parsers and generateDocxFromTemplate *)
(* of server.js.  Strings are sequences of one-character strings.          *)
(***************************************************************************)
EXTENDS Integers, Sequences, FiniteSets, TLC

\* ------------------------------------------------------------------ bounds
MaxCalls == 2
MaxDocs == 2
MaxTime == 1
MaxRequests == 2

\* ------------------------------------------------------------------ inputs
Calls == 1..MaxCalls
DocIds == 1..MaxDocs
Times == 0..MaxTime
Users == {"u1", "u2"}

Email(u) == IF u = "u1" THEN <<"a", "@", "x">> ELSE <<"b", "+", " ", "x">>

Titles == {<<"Q", "!", " ", "1">>}
Templates == {"rca"}
FileSizes == {2}

TagLists == {<<>>, <<<<"a">>>>, <<<<" ", "a", ",", "b">>>>}

\* ------------------------------------------------------- string primitives
AlnumChars == {"a", "b", "c", "x", "Q", "1"}
SpaceChars == {" ", "\n"}

\* String.prototype.trim
RECURSIVE TrimLeft(_)
TrimLeft(s) ==
  IF s # <<>> /\ Head(s) \in SpaceChars THEN TrimLeft(Tail(s)) ELSE s

RECURSIVE TrimRight(_)
TrimRight(s) ==
  IF s # <<>> /\ s[Len(s)] \in SpaceChars
    THEN TrimRight(SubSeq(s, 1, Len(s) - 1))
    ELSE s

Trim(s) == TrimRight(TrimLeft(s))

\* Array.prototype.join(',') as MySQL's GROUP_CONCAT builds it
RECURSIVE JoinComma(_)
JoinComma(ss) ==
  IF ss = <<>> THEN <<>>
  ELSE IF Len(ss) = 1 THEN ss[1]
  ELSE ss[1] \o <<",">> \o JoinComma(Tail(ss))

\* String.prototype.split(',')
RECURSIVE SplitFrom(_, _)
SplitFrom(s, cur) ==
  IF s = <<>> THEN <<cur>>
  ELSE IF Head(s) = "," THEN <<cur>> \o SplitFrom(Tail(s), <<>>)
  ELSE SplitFrom(Tail(s), Append(cur, Head(s)))

SplitComma(s) == SplitFrom(s, <<>>)

SeqToSet(s) == {s[i] : i \in 1..Len(s)}

\* ------------------------------------------------------------- file naming
EmailKeep == AlnumChars \cup {"@", ".", "-"}
TitleKeep == AlnumChars \cup SpaceChars \cup {"-"}

\* a sanitisation that drops the characters it does not keep
getUserStoragePathStrips(userEmail) ==
  SelectSeq(userEmail, LAMBDA ch : ch \in EmailKeep)

\* userEmail.replace(/[^a-zA-Z0-9@.-]/g, '_')
getUserStoragePath(userEmail) ==
  [i \in 1..Len(userEmail) |->
     IF userEmail[i] \in EmailKeep THEN userEmail[i] ELSE "_"]

\* .replace(/\s+/g, '_')
RECURSIVE CollapseSpaces(_)
CollapseSpaces(s) ==
  IF s = <<>> THEN <<>>
  ELSE IF Head(s) \in SpaceChars
    THEN <<"_">> \o CollapseSpaces(TrimLeft(s))
    ELSE <<Head(s)>> \o CollapseSpaces(Tail(s))

\* title.replace(/[^a-zA-Z0-9\s-]/g, '').replace(/\s+/g, '_')
SafeTitle(title) ==
  CollapseSpaces(SelectSeq(title, LAMBDA ch : ch \in TitleKeep))

\* the calendar month a clock reading falls in; the model's clock ticks
\* TicksPerMonth times a month
TicksPerMonth == 2
MonthOf(t) == t \div TicksPerMonth

generateDocumentPath(userEmail, templateType, title, format, t) ==
  [owner |-> getUserStoragePath(userEmail),
   month |-> MonthOf(t),
   timestamp |-> t,
   template |-> templateType,
   title |-> SafeTitle(title),
   format |-> format]


\* ------------------------------------------------------------------- state
VARIABLES
  now,            \* the wall clock read by Date.now() and NOW()
  nextId,         \* number of document ids crypto.randomUUID() has issued
  files,          \* stored files: path -> size in bytes
  documents,      \* documents table: id -> row
  document_tags,  \* document_tags table: rows in insertion order
  logs,           \* ai_generation_logs table: rows in insertion order
  deletedPaths,   \* file_path of every row deleteDocument has removed
  calls,          \* the requests in flight, one per slot
  response,       \* the call that ended in the last step, as it ended
  requests,       \* number of requests accepted so far
  batch,          \* the batch request the batch route is working on
  parser,         \* the generated text handed to the parser and what it made of it
  render,         \* the generateDocxFromTemplate call being worked on
  generate        \* the request the generate-and-store route is working on

\* what the store operations never touch
routes == <<batch, parser, render, generate>>

vars == <<now, nextId, files, documents, document_tags, logs, deletedPaths, calls,
          response, requests, routes>>

NoUpdates == [keys |-> {}, title |-> <<>>, is_favorite |-> FALSE, is_archived |-> FALSE]

UpdateInputs ==
  {[NoUpdates EXCEPT !.keys = {"is_favorite", "not_allowed"}, !.is_favorite = TRUE],
   [NoUpdates EXCEPT !.keys = {"not_allowed"}]}

\* getUserDocuments' options: search = '', templateType = '', favorites = false,
\* archived = false
NoOptions == [search |-> <<>>, templateType |-> "", favorites |-> FALSE, archived |-> FALSE]

IdleCall ==
  [op |-> "idle", pc |-> "idle", user |-> "", doc |-> 0,
   title |-> <<>>, template |-> "", size |-> 0, tags |-> <<>>,
   updates |-> NoUpdates, options |-> NoOptions, total |-> 0,
   path |-> <<>>, fileSize |-> 0, ret |-> {}, err |-> "",
   \* history of the call's own effects and of its overlap with other calls
   solo |-> FALSE, ended |-> {}, wrote |-> FALSE, writeFailed |-> FALSE,
   rowsInserted |-> 0, logsAppended |-> 0, logFailed |-> FALSE,
   unlinkFailed |-> FALSE, removed |-> <<>>,
   \* connections the call has opened and ended, its nested calls included
   opened |-> 0, closed |-> 0]

InFlight(call) == call.pc # "idle"

\* a request is accepted into slot c, the lowest free one
Accept(c) ==
  /\ calls[c].pc = "idle"
  /\ \A o \in Calls : o < c => calls[o].pc # "idle"
  /\ requests < MaxRequests
  /\ requests' = requests + 1

\* the request in slot c suspends at its first await; an addDocumentTags call
\* is solo while no other call is in flight between its start and its end
Start(c, call) ==
  /\ calls' = [o \in Calls |->
              IF o = c
                THEN [call EXCEPT !.opened = @ + 1,
                                  !.solo = /\ call.op = "tags"
                                           /\ \A x \in Calls \ {c} : ~InFlight(calls[x])]
              ELSE IF InFlight(calls[o]) THEN [calls[o] EXCEPT !.solo = FALSE]
              ELSE calls[o]]
  /\ response' = IdleCall
  /\ UNCHANGED routes

\* a call that never suspended between two statements returns or throws
Answer(call) ==
  /\ response' = [call EXCEPT !.opened = @ + 1, !.closed = @ + 1]
  /\ UNCHANGED <<calls, routes>>

\* a getDocument call made inside another operation opens a connection of
\* its own and its finally block ends it
Nested(call) == [call EXCEPT !.opened = @ + 1, !.closed = @ + 1]

\* what an addDocumentTags call in flight remembers of another one on the same
\* document that ended during its run
Ended(call) == [op |-> call.op, pc |-> call.pc, tags |-> call.tags]

\* a return that leaves the connection open
FinishLeaks(c, call) ==
  /\ response' = call
  /\ calls' = [o \in Calls |->
              IF o = c THEN IdleCall
              ELSE IF /\ InFlight(calls[o]) /\ calls[o].doc = call.doc
                      /\ calls[o].op = "tags" /\ call.op = "tags"
                THEN [calls[o] EXCEPT !.ended = @ \cup {Ended(call)}]
              ELSE calls[o]]
  /\ UNCHANGED routes

\* the call in slot c returns or throws: the finally block closes its
\* connection, the slot is free, and when it replaced tags the other tag
\* replacements in flight on the same document have seen it end
Finish(c, call) ==
  /\ response' = [call EXCEPT !.closed = @ + 1]
  /\ calls' = [o \in Calls |->
              IF o = c THEN IdleCall
              ELSE IF /\ InFlight(calls[o]) /\ calls[o].doc = call.doc
                      /\ calls[o].op = "tags" /\ call.op = "tags"
                THEN [calls[o] EXCEPT !.ended = @ \cup {Ended(call)}]
              ELSE calls[o]]
  /\ UNCHANGED routes

\* the call in slot c suspends at its next await
Step(c, call) ==
  /\ calls' = [calls EXCEPT ![c] = call]
  /\ response' = IdleCall
  /\ UNCHANGED routes

\* Date.now() and NOW() return t: time has not run backwards since the
\* clock was last read, and a tick is long enough that at most one has
\* passed between two reads
ReadClock(t) ==
  /\ t \in now..MaxTime /\ t <= now + 1
  /\ now' = t

\* ------------------------------------------------------ relational helpers
\* INSERT of one row / one file
Put(f, k, v) == [x \in DOMAIN f \cup {k} |-> IF x = k THEN v ELSE f[x]]
\* DELETE of the rows / unlink of the file with key in ks
Drop(f, ks) == [x \in DOMAIN f \ ks |-> f[x]]

\* the row saveDocument inserts into documents
DocumentRow(documentId, userId, title, tmpl, filePath, fileSize, t) ==
  [id |-> documentId, user_id |-> userId, title |-> title, content_preview |-> <<>>,
   template_type |-> tmpl, file_path |-> filePath, file_size |-> fileSize,
   is_favorite |-> FALSE, is_archived |-> FALSE, created_at |-> t, updated_at |-> t]

\* the row logDocumentGeneration inserts into ai_generation_logs
LogRow(userId, documentId, tmpl) ==
  [user_id |-> userId, document_id |-> documentId, template_type |-> tmpl,
   success |-> TRUE]

\* no batch request
NoBatch ==
  [pc |-> "idle", user |-> "", action |-> "", ids |-> <<>>, flag |-> FALSE,
   results |-> <<>>, status |-> 0]

\* no text to parse
NoParse == [pc |-> "idle", template |-> "", content |-> <<>>, branch |-> "", sections |-> <<>>]

\* no document to render
NoRender ==
  [pc |-> "idle", templateType |-> "", data |-> <<>>, structuredSteps |-> <<>>,
   templateData |-> <<>>, steps |-> <<>>, handed |-> <<>>, rejected |-> {},
   terminated |-> FALSE, err |-> ""]

\* no generation request
NoGenerate ==
  [pc |-> "idle", user |-> "", template |-> <<>>, sections |-> <<>>, configured |-> FALSE,
   ran |-> <<>>, status |-> 0, error |-> "", details |-> ""]

\* The service object holds no data of its own: when the process starts, the
\* database and the storage directory are either empty or hold what an
\* earlier run left there, here one document stored by a saveDocument call
\* of the first user.
Init ==
  /\ batch = NoBatch
  /\ parser = NoParse
  /\ now = 0
  /\ document_tags = <<>>
  /\ deletedPaths = {}
  /\ calls = [c \in Calls |-> IdleCall]
  /\ response = IdleCall
  /\ requests = 0
  /\ render = NoRender
  /\ generate = NoGenerate
  /\ \/ /\ nextId = 0
        /\ files = <<>>
        /\ documents = <<>>
        /\ logs = <<>>
     \/ \E u \in {"u1"}, title \in Titles, tmpl \in Templates, size \in FileSizes :
          LET filePath == generateDocumentPath(Email(u), tmpl, title, "docx", 0) IN
          /\ nextId = 1
          /\ files = Put(<<>>, filePath, size)
          /\ documents = Put(<<>>, 1, DocumentRow(1, u, title, tmpl, filePath, size, 0))
          /\ logs = <<LogRow(u, 1, tmpl)>>

\* the rows of table tagRows WHERE document_id = d
TagRowsOf(tagRows, d) == SelectSeq(tagRows, LAMBDA r : r.document_id = d)

\* SELECT tag_name FROM tagRows WHERE document_id = d
TagNamesOf(tagRows, d) ==
  LET rows == TagRowsOf(tagRows, d)
  IN  [i \in 1..Len(rows) |-> rows[i].tag_name]

\* document.tags ? document.tags.split(',') : []   over GROUP_CONCAT(tag_name)
ReturnedTags(names) ==
  IF names = <<>> \/ JoinComma(names) = <<>> THEN <<>>
  ELSE SplitComma(JoinComma(names))

\* the lookup without its user_id condition
OwnedRowsAnyUser(documentId, userId) ==
  {i \in DOMAIN documents : i = documentId}

\* WHERE d.id = ? AND d.user_id = ?
OwnedRows(documentId, userId) ==
  {i \in DOMAIN documents : i = documentId /\ documents[i].user_id = userId}

\* getDocument: the rows the SELECT yields, each with its tag list
getDocument(documentId, userId) ==
  {[row |-> documents[i], tags |-> ReturnedTags(TagNamesOf(document_tags, i))] :
     i \in OwnedRows(documentId, userId)}

\* the schema's foreign key document_tags.document_id -> documents.id
ForeignKeyHolds(documentId) == documentId \in DOMAIN documents

\* a foreign key without the cascade
CascadeTagsNone(ids) == document_tags

\* ON DELETE CASCADE of that foreign key
CascadeTags(ids) == SelectSeq(document_tags, LAMBDA r : r.document_id \notin ids)

\* ------------------------------------------------------------ saveDocument
\* createConnection, randomUUID, generateDocumentPath
SaveBegin(c, u, title, tmpl, size, t) ==
  /\ Accept(c)
  /\ nextId < MaxDocs
  /\ nextId' = nextId + 1
  /\ ReadClock(t)
  /\ Start(c, [IdleCall EXCEPT
                 !.op = "save", !.pc = "write", !.user = u, !.doc = nextId + 1,
                 !.title = title, !.template = tmpl, !.size = size,
                 !.path = <<generateDocumentPath(Email(u), tmpl, title, "docx", t)>>])
  /\ UNCHANGED <<files, documents, document_tags, logs, deletedPaths>>

\* await fs.writeFile(filePath, fileBuffer)
SaveWrite(c) ==
  /\ calls[c].op = "save" /\ calls[c].pc = "write"
  /\ files' = Put(files, calls[c].path[1], calls[c].size)
  /\ Step(c, [calls[c] EXCEPT !.pc = "stat", !.wrote = TRUE])
  /\ UNCHANGED <<now, nextId, documents, document_tags, logs, deletedPaths, requests>>

\* the failed write swallowed instead of rethrown
SaveWriteFailSwallowed(c) ==
  /\ calls[c].op = "save" /\ calls[c].pc = "write"
  /\ Step(c, [calls[c] EXCEPT !.pc = "insert", !.writeFailed = TRUE])
  /\ UNCHANGED <<now, nextId, files, documents, document_tags, logs, deletedPaths, requests>>

\* fs.writeFile rejects: catch, rethrow
SaveWriteFail(c) ==
  /\ calls[c].op = "save" /\ calls[c].pc = "write"
  /\ Finish(c, [calls[c] EXCEPT !.pc = "failed", !.writeFailed = TRUE,
                                !.err = "Failed to save document"])
  /\ UNCHANGED <<now, nextId, files, documents, document_tags, logs, deletedPaths, requests>>

\* const stats = await fs.stat(filePath)
SaveStat(c) ==
  /\ calls[c].op = "save" /\ calls[c].pc = "stat"
  /\ IF calls[c].path[1] \in DOMAIN files
       THEN Step(c, [calls[c] EXCEPT !.pc = "insert",
                                     !.fileSize = files[calls[c].path[1]]])
       ELSE Finish(c, [calls[c] EXCEPT !.pc = "failed",
                                       !.err = "Failed to save document"])
  /\ UNCHANGED <<now, nextId, files, documents, document_tags, logs, deletedPaths, requests>>

\* INSERT INTO documents (...) VALUES (..., NOW(), NOW())
SaveInsert(c, t) ==
  /\ calls[c].op = "save" /\ calls[c].pc = "insert"
  /\ ReadClock(t)
  /\ documents' = Put(documents, calls[c].doc,
       DocumentRow(calls[c].doc, calls[c].user, calls[c].title, calls[c].template,
                   calls[c].path[1], calls[c].fileSize, t))
  /\ Step(c, [calls[c] EXCEPT !.pc = "log", !.rowsInserted = @ + 1])
  /\ UNCHANGED <<nextId, files, document_tags, logs, deletedPaths, requests>>

\* the failed INSERT swallowed instead of rethrown
SaveInsertFailSwallowed(c) ==
  /\ calls[c].op = "save" /\ calls[c].pc = "insert"
  /\ Step(c, [calls[c] EXCEPT !.pc = "log"])
  /\ UNCHANGED <<now, nextId, files, documents, document_tags, logs, deletedPaths, requests>>

\* the INSERT is rejected: catch, rethrow
SaveInsertFail(c) ==
  /\ calls[c].op = "save" /\ calls[c].pc = "insert"
  /\ Finish(c, [calls[c] EXCEPT !.pc = "failed", !.err = "Failed to save document"])
  /\ UNCHANGED <<now, nextId, files, documents, document_tags, logs, deletedPaths, requests>>

\* the log INSERT left out
SaveLogSkipped(c) ==
  /\ calls[c].op = "save" /\ calls[c].pc = "log"
  /\ Finish(c, [calls[c] EXCEPT !.pc = "done"])
  /\ UNCHANGED <<now, nextId, files, documents, document_tags, logs, deletedPaths, requests>>

\* logDocumentGeneration, then return { id, filePath, fileSize, created }
SaveLog(c) ==
  /\ calls[c].op = "save" /\ calls[c].pc = "log"
  /\ logs' = Append(logs, LogRow(calls[c].user, calls[c].doc, calls[c].template))
  /\ Finish(c, [calls[c] EXCEPT !.pc = "done", !.logsAppended = @ + 1])
  /\ UNCHANGED <<now, nextId, files, documents, document_tags, deletedPaths, requests>>

\* logDocumentGeneration catches the failed INSERT and only logs it
SaveLogFail(c) ==
  /\ calls[c].op = "save" /\ calls[c].pc = "log"
  /\ Finish(c, [calls[c] EXCEPT !.pc = "done", !.logFailed = TRUE])
  /\ UNCHANGED <<now, nextId, files, documents, document_tags, logs, deletedPaths, requests>>

\* ------------------------------------------------------------- getDocument
\* a getDocument request of its own: one SELECT, then the result or the throw
GetDocument(c, u, d) ==
  /\ Accept(c)
  /\ d <= nextId
  /\ Answer(IF getDocument(d, u) = {}
              THEN [IdleCall EXCEPT !.op = "get", !.pc = "failed",
                                    !.err = "Document not found"]
              ELSE [IdleCall EXCEPT !.op = "get", !.pc = "done", !.user = u, !.doc = d,
                                    !.ret = getDocument(d, u)])
  /\ UNCHANGED <<now, nextId, files, documents, document_tags, logs, deletedPaths>>

\* ---------------------------------------------------------- deleteDocument
\* const document = await this.getDocument(documentId, userId)
DeleteBegin(c, u, d) ==
  /\ Accept(c)
  /\ d <= nextId
  /\ IF getDocument(d, u) = {}
       THEN Answer(Nested([IdleCall EXCEPT !.op = "delete", !.pc = "failed",
                                           !.err = "Document not found"]))
       ELSE Start(c, Nested([IdleCall EXCEPT !.op = "delete", !.pc = "unlink", !.user = u,
                                             !.doc = d, !.path = <<documents[d].file_path>>]))
  /\ UNCHANGED <<now, nextId, files, documents, document_tags, logs, deletedPaths>>

\* await fs.unlink(document.file_path)
DeleteUnlink(c) ==
  /\ calls[c].op = "delete" /\ calls[c].pc = "unlink"
  /\ calls[c].path[1] \in DOMAIN files
  /\ files' = Drop(files, {calls[c].path[1]})
  /\ Step(c, [calls[c] EXCEPT !.pc = "delrow"])
  /\ UNCHANGED <<now, nextId, documents, document_tags, logs, deletedPaths, requests>>

\* the unlink error rethrown instead of tolerated
DeleteUnlinkFailFatal(c) ==
  /\ calls[c].op = "delete" /\ calls[c].pc = "unlink"
  /\ calls[c].path[1] \notin DOMAIN files
  /\ Finish(c, [calls[c] EXCEPT !.pc = "failed", !.unlinkFailed = TRUE,
                                !.err = "File not found"])
  /\ UNCHANGED <<now, nextId, files, documents, document_tags, logs, deletedPaths, requests>>

\* fs.unlink rejects because the file is gone: console.warn, carry on
DeleteUnlinkFail(c) ==
  /\ calls[c].op = "delete" /\ calls[c].pc = "unlink"
  /\ calls[c].path[1] \notin DOMAIN files
  /\ Step(c, [calls[c] EXCEPT !.pc = "delrow", !.unlinkFailed = TRUE])
  /\ UNCHANGED <<now, nextId, files, documents, document_tags, logs, deletedPaths, requests>>

\* DELETE FROM documents WHERE id = ? AND user_id = ?
\* and return { success: true, ... }
DeleteRow(c) ==
  /\ calls[c].op = "delete" /\ calls[c].pc = "delrow"
  /\ LET gone == OwnedRows(calls[c].doc, calls[c].user)
     IN  /\ documents' = Drop(documents, gone)
         /\ document_tags' = CascadeTags(gone)
         /\ deletedPaths' = deletedPaths \cup {documents[i].file_path : i \in gone}
         /\ Finish(c, [calls[c] EXCEPT
              !.pc = "done",
              !.removed = SelectSeq(document_tags, LAMBDA r : r.document_id \in gone)])
  /\ UNCHANGED <<now, nextId, files, logs, requests>>

\* the DELETE is rejected: catch, rethrow
DeleteRowFail(c) ==
  /\ calls[c].op = "delete" /\ calls[c].pc = "delrow"
  /\ Finish(c, [calls[c] EXCEPT !.pc = "failed", !.err = "Database error"])
  /\ UNCHANGED <<now, nextId, files, documents, document_tags, logs, deletedPaths, requests>>

\* ---------------------------------------------------------- updateDocument
allowedUpdates == {"title", "is_favorite", "is_archived"}

\* every key of the update set taken, without the allow-list
updateFieldsUnfiltered(updates) == updates.keys

\* the keys that pass allowedUpdates.includes(key)
updateFields(updates) == updates.keys \cap allowedUpdates

UpdateBegin(c, u, d, updates) ==
  /\ Accept(c)
  /\ d <= nextId
  /\ IF updateFields(updates) = {}
       THEN Answer([IdleCall EXCEPT !.op = "update", !.pc = "failed",
                                    !.updates = updates,
                                    !.err = "No valid updates provided"])
       ELSE Start(c, [IdleCall EXCEPT !.op = "update", !.pc = "update", !.user = u,
                                      !.doc = d, !.updates = updates])
  /\ UNCHANGED <<now, nextId, files, documents, document_tags, logs, deletedPaths>>

\* an UPDATE that also rewrites created_at
UpdateRowTouchesCreated(row, updates, t) ==
  [row EXCEPT
     !.title = IF "title" \in updateFields(updates) THEN updates.title ELSE @,
     !.is_favorite = IF "is_favorite" \in updateFields(updates)
                       THEN updates.is_favorite ELSE @,
     !.is_archived = IF "is_archived" \in updateFields(updates)
                       THEN updates.is_archived ELSE @,
     !.created_at = t,
     !.updated_at = t]

\* UPDATE documents SET ..., updated_at = NOW() WHERE id = ? AND user_id = ?
UpdateRow(row, updates, t) ==
  [row EXCEPT
     !.title = IF "title" \in updateFields(updates) THEN updates.title ELSE @,
     !.is_favorite = IF "is_favorite" \in updateFields(updates)
                       THEN updates.is_favorite ELSE @,
     !.is_archived = IF "is_archived" \in updateFields(updates)
                       THEN updates.is_archived ELSE @,
     !.updated_at = t]

\* the UPDATE without updated_at = NOW()
UpdateExecNoStamp(c, t) ==
  /\ calls[c].op = "update" /\ calls[c].pc = "update"
  /\ ReadClock(t)
  /\ documents' = [i \in DOMAIN documents |->
                     IF i \in OwnedRows(calls[c].doc, calls[c].user)
                       THEN UpdateRow(documents[i], calls[c].updates, documents[i].updated_at)
                       ELSE documents[i]]
  /\ Step(c, [calls[c] EXCEPT !.pc = "reget"])
  /\ UNCHANGED <<nextId, files, document_tags, logs, deletedPaths, requests>>

UpdateExec(c, t) ==
  /\ calls[c].op = "update" /\ calls[c].pc = "update"
  /\ ReadClock(t)
  /\ documents' = [i \in DOMAIN documents |->
                     IF i \in OwnedRows(calls[c].doc, calls[c].user)
                       THEN UpdateRow(documents[i], calls[c].updates, t)
                       ELSE documents[i]]
  /\ Step(c, [calls[c] EXCEPT !.pc = "reget"])
  /\ UNCHANGED <<nextId, files, document_tags, logs, deletedPaths, requests>>

\* return await this.getDocument(documentId, userId)
UpdateGet(c) ==
  /\ calls[c].op = "update" /\ calls[c].pc = "reget"
  /\ Finish(c, Nested(IF getDocument(calls[c].doc, calls[c].user) = {}
                 THEN [calls[c] EXCEPT !.pc = "failed", !.err = "Document not found"]
                 ELSE [calls[c] EXCEPT !.pc = "done",
                                       !.ret = getDocument(calls[c].doc, calls[c].user)]))
  /\ UNCHANGED <<now, nextId, files, documents, document_tags, logs, deletedPaths, requests>>

\* --------------------------------------------------------- addDocumentTags
\* await this.getDocument(documentId, userId)   (verify ownership)
TagsBegin(c, u, d, tags) ==
  /\ Accept(c)
  /\ d <= nextId
  /\ IF getDocument(d, u) = {}
       THEN Answer(Nested([IdleCall EXCEPT !.op = "tags", !.pc = "failed",
                                           !.err = "Document not found"]))
       ELSE Start(c, Nested([IdleCall EXCEPT !.op = "tags", !.pc = "tagdelete", !.user = u,
                                             !.doc = d, !.tags = tags]))
  /\ UNCHANGED <<now, nextId, files, documents, document_tags, logs, deletedPaths>>

\* DELETE FROM document_tags WHERE document_id = ?
\* and, when tags is empty, return { success: true, tags }
TagsDelete(c) ==
  /\ calls[c].op = "tags" /\ calls[c].pc = "tagdelete"
  /\ document_tags' = SelectSeq(document_tags, LAMBDA r : r.document_id # calls[c].doc)
  /\ LET removed == TagRowsOf(document_tags, calls[c].doc)
     IN  IF Len(calls[c].tags) > 0
           THEN Step(c, [calls[c] EXCEPT !.pc = "taginsert", !.removed = removed])
           ELSE Finish(c, [calls[c] EXCEPT !.pc = "done", !.removed = removed])
  /\ UNCHANGED <<now, nextId, files, documents, logs, deletedPaths, requests>>

\* tags.map(tag => [uuid, documentId, tag.trim()])
NewTagRows(documentId, tags) ==
  [i \in 1..Len(tags) |-> [document_id |-> documentId, tag_name |-> Trim(tags[i])]]

\* INSERT INTO document_tags (id, document_id, tag_name) VALUES ...
\* and return { success: true, tags }
TagsInsert(c) ==
  /\ calls[c].op = "tags" /\ calls[c].pc = "taginsert"
  /\ ForeignKeyHolds(calls[c].doc)
  /\ document_tags' = document_tags \o NewTagRows(calls[c].doc, calls[c].tags)
  /\ Finish(c, [calls[c] EXCEPT !.pc = "done"])
  /\ UNCHANGED <<now, nextId, files, documents, logs, deletedPaths, requests>>

\* the INSERT is rejected: catch, rethrow; the DELETE before it stays done
TagsInsertFail(c) ==
  /\ calls[c].op = "tags" /\ calls[c].pc = "taginsert"
  /\ Finish(c, [calls[c] EXCEPT !.pc = "failed", !.err = "Database error"])
  /\ UNCHANGED <<now, nextId, files, documents, document_tags, logs, deletedPaths, requests>>

Next ==
  \/ \E c \in Calls, u \in Users, title \in Titles, tmpl \in Templates,
        size \in FileSizes, t \in Times :
       SaveBegin(c, u, title, tmpl, size, t)
  \/ \E c \in Calls : SaveWrite(c)
  \/ \E c \in Calls : SaveWriteFail(c)
  \/ \E c \in Calls : SaveStat(c)
  \/ \E c \in Calls, t \in Times : SaveInsert(c, t)
  \/ \E c \in Calls : SaveInsertFail(c)
  \/ \E c \in Calls : SaveLog(c)
  \/ \E c \in Calls : SaveLogFail(c)
  \/ \E c \in Calls, u \in Users, d \in DocIds : GetDocument(c, u, d)
  \/ \E c \in Calls, u \in Users, d \in DocIds : DeleteBegin(c, u, d)
  \/ \E c \in Calls : DeleteUnlink(c)
  \/ \E c \in Calls : DeleteUnlinkFail(c)
  \/ \E c \in Calls : DeleteRow(c)
  \/ \E c \in Calls : DeleteRowFail(c)
  \/ \E c \in Calls, u \in Users, d \in DocIds, updates \in UpdateInputs :
       UpdateBegin(c, u, d, updates)
  \/ \E c \in Calls, t \in Times : UpdateExec(c, t)
  \/ \E c \in Calls : UpdateGet(c)
  \/ \E c \in Calls, u \in Users, d \in DocIds, tags \in TagLists :
       TagsBegin(c, u, d, tags)
  \/ \E c \in Calls : TagsDelete(c)
  \/ \E c \in Calls : TagsInsert(c)
  \/ \E c \in Calls : TagsInsertFail(c)

Spec == Init /\ [][Next]_vars

\* --------------------------------------------------------- getUserDocuments
MaxRows == 2

\* limit = 20
DefaultLimit == 20

\* s LIKE pattern: % matches any run of characters, _ any one character
RECURSIVE Like(_, _)
Like(str, pattern) ==
  IF pattern = <<>> THEN str = <<>>
  ELSE IF Head(pattern) = "%"
    THEN Like(str, Tail(pattern)) \/ (str # <<>> /\ Like(Tail(str), pattern))
  ELSE /\ str # <<>>
       /\ Head(pattern) = "_" \/ Head(pattern) = Head(str)
       /\ Like(Tail(str), Tail(pattern))

\* `%${search}%`
SearchPattern(search) == <<"%">> \o search \o <<"%">>

\* the WHERE clause getUserDocuments builds from its options
WhereClause(row, userId, options) ==
  /\ row.user_id = userId
  /\ row.is_archived = options.archived
  /\ options.search # <<>> =>
       \/ Like(row.title, SearchPattern(options.search))
       \/ Like(row.content_preview, SearchPattern(options.search))
  /\ options.templateType # "" => row.template_type = options.templateType
  /\ options.favorites => row.is_favorite

\* the ids the WHERE clause selects
Selected(userId, options) ==
  {i \in DOMAIN documents : WhereClause(documents[i], userId, options)}

\* the options a request can carry
ListOptions ==
  [search : {<<>>, <<"a">>, <<"_">>}, templateType : {"", "rca"},
   favorites : BOOLEAN, archived : BOOLEAN]

\* the kinds of document rows a store can hold
ListRows ==
  {[owner |-> "u1", title |-> <<"a", "b">>, preview |-> <<>>, tmpl |-> "rca",
    favorite |-> FALSE, archived |-> FALSE],
   [owner |-> "u1", title |-> <<"c">>, preview |-> <<"b", "a">>, tmpl |-> "guide",
    favorite |-> TRUE, archived |-> FALSE],
   [owner |-> "u1", title |-> <<"c">>, preview |-> <<>>, tmpl |-> "rca",
    favorite |-> TRUE, archived |-> TRUE],
   [owner |-> "u2", title |-> <<"a", "_">>, preview |-> <<>>, tmpl |-> "rca",
    favorite |-> FALSE, archived |-> FALSE]}

\* row i of a store, of kind k
ListRow(i, k) ==
  [DocumentRow(i, k.owner, k.title, k.tmpl,
               generateDocumentPath(Email(k.owner), k.tmpl, k.title, "docx", 0), 2, 0)
     EXCEPT !.content_preview = k.preview, !.is_favorite = k.favorite,
            !.is_archived = k.archived]

\* a store that holds n documents, no call in flight
ListInit ==
  \E n \in 0..MaxRows :
    \E kind \in [1..n -> ListRows] :
      /\ now = 0
      /\ nextId = n
      /\ documents = [i \in 1..n |-> ListRow(i, kind[i])]
      /\ files = [f \in {ListRow(i, kind[i]).file_path : i \in 1..n} |-> 2]
      /\ document_tags = <<>>
      /\ logs = [i \in 1..n |-> LogRow(kind[i].owner, i, kind[i].tmpl)]
      /\ deletedPaths = {}
      /\ calls = [c \in Calls |-> IdleCall]
      /\ response = IdleCall
      /\ requests = 0
      /\ render = NoRender
      /\ generate = NoGenerate
      /\ batch = NoBatch
      /\ parser = NoParse

\* the first SELECT: the rows of the page, LIMIT ? OFFSET ? with page 1
ListSelect(c, u, options) ==
  /\ Accept(c)
  /\ \E page \in SUBSET Selected(u, options) :
       /\ \/ page = Selected(u, options)
          \/ Cardinality(page) = DefaultLimit
       /\ Cardinality(page) <= DefaultLimit
       /\ Start(c, [IdleCall EXCEPT
            !.op = "list", !.pc = "count", !.user = u, !.options = options,
            !.ret = {[row |-> documents[i],
                      tags |-> ReturnedTags(TagNamesOf(document_tags, i))] : i \in page}])
  /\ UNCHANGED <<now, nextId, files, documents, document_tags, logs, deletedPaths>>

\* the second SELECT, COUNT(DISTINCT d.id) under the same WHERE clause, and
\* the return
ListCount(c) ==
  /\ calls[c].op = "list" /\ calls[c].pc = "count"
  /\ Finish(c, [calls[c] EXCEPT
       !.pc = "done",
       !.total = Cardinality(Selected(calls[c].user, calls[c].options))])
  /\ UNCHANGED <<now, nextId, files, documents, document_tags, logs, deletedPaths, requests>>

\* a SELECT is rejected: catch, rethrow as 'Failed to retrieve documents: ...'
ListFail(c) ==
  /\ calls[c].op = "list" /\ calls[c].pc = "count"
  /\ Finish(c, [calls[c] EXCEPT !.pc = "failed", !.ret = {},
                                !.err = "Failed to retrieve documents"])
  /\ UNCHANGED <<now, nextId, files, documents, document_tags, logs, deletedPaths, requests>>

NextList ==
  \/ \E c \in Calls, u \in Users, options \in ListOptions : ListSelect(c, u, options)
  \/ \E c \in Calls : ListCount(c)
  \/ \E c \in Calls : ListFail(c)

SpecList == ListInit /\ [][NextList]_vars

\* ------------------------------------------------------------ batch route
\* router.post('/user/documents/batch'): one request, its loop over documentIds
MaxBatch == 2

BatchActions == {"delete", "favorite", "archive", "purge"}

BatchIds == UNION {[1..n -> DocIds] : n \in 0..MaxBatch}

\* the table a run of saveDocument calls made at time 0 leaves behind
StoredRow(i, u) ==
  DocumentRow(i, u, <<"Q", "!", " ", "1">>, "rca",
              generateDocumentPath(Email(u), "rca", <<"Q", "!", " ", "1">>, "docx", 0), 2, 0)

\* a batch request of user u arrives at a store that holds n documents
BatchInit ==
  \E n \in 0..MaxDocs, u \in Users, action \in BatchActions, ids \in BatchIds :
    \E owner \in [1..n -> Users] :
      /\ now = 0
      /\ nextId = n
      /\ documents = [i \in 1..n |-> StoredRow(i, owner[i])]
      /\ files = [f \in {StoredRow(i, owner[i]).file_path : i \in 1..n} |-> 2]
      /\ document_tags = <<>>
      /\ logs = [i \in 1..n |-> LogRow(owner[i], i, "rca")]
      /\ deletedPaths = {}
      /\ calls = [c \in Calls |-> IdleCall]
      /\ response = IdleCall
      /\ requests = 0
      /\ render = NoRender
      /\ generate = NoGenerate
      /\ batch = [NoBatch EXCEPT !.pc = "loop", !.user = u, !.action = action,
                                 !.ids = ids, !.flag = TRUE]
      /\ parser = NoParse

\* the loop has an id left to work on
BatchLoop == batch.pc = "loop" /\ Len(batch.results) < Len(batch.ids)

\* documentId of the current iteration
BatchItem == batch.ids[Len(batch.results) + 1]

\* results.push({ documentId, success: true, result })
PushSuccess ==
  batch' = [batch EXCEPT !.results =
              Append(@, [documentId |-> BatchItem, success |-> TRUE, error |-> ""])]

\* a failed item ends the request with the outer catch's 500
PushFailureAborts(error) ==
  batch' = [batch EXCEPT !.pc = "sent", !.status = 500]

\* catch (error) { results.push({ documentId, success: false, error: error.message }) }
PushFailure(error) ==
  batch' = [batch EXCEPT !.results =
              Append(@, [documentId |-> BatchItem, success |-> FALSE, error |-> error])]

\* case 'delete': await documentStorage.deleteDocument(documentId, req.user.id)
BatchDelete ==
  /\ BatchLoop /\ batch.action = "delete"
  /\ LET gone == OwnedRows(BatchItem, batch.user) IN
       IF getDocument(BatchItem, batch.user) = {}
         THEN /\ PushFailure("Document not found")
              /\ UNCHANGED <<files, documents, document_tags, deletedPaths>>
         ELSE /\ files' = Drop(files, {documents[i].file_path : i \in gone})
              /\ documents' = Drop(documents, gone)
              /\ document_tags' = CascadeTags(gone)
              /\ deletedPaths' = deletedPaths \cup {documents[i].file_path : i \in gone}
              /\ PushSuccess
  /\ UNCHANGED <<now, nextId, logs, calls, response, requests, parser, render, generate>>

\* updateDocument(documentId, req.user.id, updates) run to its end
BatchUpdate(updates, t) ==
  /\ ReadClock(t)
  /\ documents' = [i \in DOMAIN documents |->
                     IF i \in OwnedRows(BatchItem, batch.user)
                       THEN UpdateRow(documents[i], updates, t)
                       ELSE documents[i]]
  /\ IF OwnedRows(BatchItem, batch.user) = {}
       THEN PushFailure("Document not found")
       ELSE PushSuccess
  /\ UNCHANGED <<nextId, files, document_tags, logs, deletedPaths, calls, response, requests, parser, render, generate>>

\* case 'favorite': updateDocument(documentId, req.user.id, { is_favorite: data.favorite })
BatchFavorite(t) ==
  /\ BatchLoop /\ batch.action = "favorite"
  /\ BatchUpdate([NoUpdates EXCEPT !.keys = {"is_favorite"}, !.is_favorite = batch.flag], t)

\* case 'archive': updateDocument(documentId, req.user.id, { is_archived: data.archived })
BatchArchive(t) ==
  /\ BatchLoop /\ batch.action = "archive"
  /\ BatchUpdate([NoUpdates EXCEPT !.keys = {"is_archived"}, !.is_archived = batch.flag], t)

\* default: throw new Error('Invalid batch action')
BatchInvalid ==
  /\ BatchLoop /\ batch.action \notin {"delete", "favorite", "archive"}
  /\ PushFailure("Invalid batch action")
  /\ UNCHANGED <<now, nextId, files, documents, document_tags, logs, deletedPaths,
                 calls, response, requests, parser, render, generate>>

\* the store operation of the current item throws on a rejected statement
BatchStoreFails ==
  /\ BatchLoop /\ batch.action \in {"delete", "favorite", "archive"}
  /\ PushFailure("Database error")
  /\ UNCHANGED <<now, nextId, files, documents, document_tags, logs, deletedPaths,
                 calls, response, requests, parser, render, generate>>

\* res.json({ success: true, results })
BatchRespond ==
  /\ batch.pc = "loop" /\ Len(batch.results) = Len(batch.ids)
  /\ batch' = [batch EXCEPT !.pc = "sent", !.status = 200]
  /\ UNCHANGED <<now, nextId, files, documents, document_tags, logs, deletedPaths,
                 calls, response, requests, parser, render, generate>>

NextBatch ==
  \/ BatchDelete
  \/ \E t \in Times : BatchFavorite(t)
  \/ \E t \in Times : BatchArchive(t)
  \/ BatchInvalid
  \/ BatchStoreFails
  \/ BatchRespond

SpecBatch == BatchInit /\ [][NextBatch]_vars

\* ------------------------------------------------------------------ parser
\* the most pieces a generated text is put together from
MaxPieces == 7

Dashes == <<"-", "-", "-">>
BlankLine == <<"\n", "\n">>

\* String.prototype.split(delim) for a non-empty delimiter
RECURSIVE SplitAt(_, _, _)
SplitAt(str, delim, cur) ==
  IF str = <<>> THEN <<cur>>
  ELSE IF Len(str) >= Len(delim) /\ SubSeq(str, 1, Len(delim)) = delim
    THEN <<cur>> \o SplitAt(SubSeq(str, Len(delim) + 1, Len(str)), delim, <<>>)
  ELSE SplitAt(Tail(str), delim, Append(cur, Head(str)))

Split(str, delim) == SplitAt(str, delim, <<>>)

\* Array.prototype.join(sep)
RECURSIVE Join(_, _)
Join(ss, sep) ==
  IF ss = <<>> THEN <<>>
  ELSE IF Len(ss) = 1 THEN ss[1]
  ELSE ss[1] \o sep \o Join(Tail(ss), sep)

ReportKeys ==
  <<"initial_findings", "executive_summary", "timeline_events", "risk_impact",
    "resolution_actions", "lessons_learned">>

GuideKeys ==
  <<"guide_overview", "target_audience", "prerequisites", "steps_content", "conclusion">>

\* the object literal with keys[i] : values[i]
Sections(keys, values) ==
  [k \in SeqToSet(keys) |-> values[CHOOSE i \in 1..Len(keys) : keys[i] = k]]

\* the strict assignment without trim()
StrictUntrimmed(keys, parts) ==
  Sections(keys, [i \in 1..Len(keys) |-> parts[i]])

\* parts[i] ? parts[i].trim() : ''
Strict(keys, parts) ==
  Sections(keys, [i \in 1..Len(keys) |-> IF parts[i] = <<>> THEN <<>> ELSE Trim(parts[i])])

\* content.split('\n\n').filter(p => p.trim())
Paragraphs(content) == SelectSeq(Split(content, BlankLine), LAMBDA para : Trim(para) # <<>>)

\* the literal '<name> not properly parsed'
NotParsed(name) == <<name, " not properly parsed">>

\* a last resort that puts a placeholder in the first section too
TotalReportLosesContent(content) ==
  Sections(ReportKeys,
    <<NotParsed("Initial findings"), NotParsed("Executive summary"), NotParsed("Timeline"),
      NotParsed("Risk assessment"), NotParsed("Resolution actions"),
      NotParsed("Lessons learned")>>)

\* parseAIResponse's last resort: the whole content in the first section
TotalReport(content) ==
  Sections(ReportKeys,
    <<content, NotParsed("Executive summary"), NotParsed("Timeline"),
      NotParsed("Risk assessment"), NotParsed("Resolution actions"),
      NotParsed("Lessons learned")>>)

\* parseStepByStepResponse's fallback
TotalGuide(content) ==
  Sections(GuideKeys,
    <<content, <<"General users">>, <<"No specific prerequisites">>,
      NotParsed("Steps"), <<"Conclusion not available">> >>)

\* function parseAIResponse(content)
parseAIResponse(content) ==
  LET parts == Split(content, Dashes)
      paragraphs == Paragraphs(content)
  IN  IF Len(parts) >= 6
        THEN [branch |-> "strict", sections |-> Strict(ReportKeys, parts)]
      ELSE IF Len(paragraphs) >= 6
        THEN [branch |-> "paragraph",
              sections |-> Sections(ReportKeys, [i \in 1..6 |-> paragraphs[i]])]
      ELSE [branch |-> "total", sections |-> TotalReport(content)]

\* function parseStepByStepResponse(content)
parseStepByStepResponse(content) ==
  LET parts == Split(content, Dashes)
  IN  IF Len(parts) >= 5
        THEN [branch |-> "strict", sections |-> Strict(GuideKeys, parts)]
      ELSE [branch |-> "total", sections |-> TotalGuide(content)]

\* the pieces a generated text is put together from
Pieces == {<<>>, <<" ", "a", "\n">>, <<"b", "\n", "\n", "c">>}

\* the templates of the two shapes
ParserTemplates == {"incident-report", "step-by-step-guide"}

\* a generated text arrives: pieces joined by the delimiter or by blank lines
ParseInit ==
  \E n \in 1..MaxPieces, sep \in {Dashes, BlankLine}, tmpl \in ParserTemplates :
    \E pieces \in [1..n -> Pieces] :
      /\ parser = [NoParse EXCEPT !.pc = "input", !.template = tmpl,
                                  !.content = Join(pieces, sep)]
      /\ batch = NoBatch
      /\ now = 0
      /\ nextId = 0
      /\ files = <<>>
      /\ documents = <<>>
      /\ document_tags = <<>>
      /\ logs = <<>>
      /\ deletedPaths = {}
      /\ calls = [c \in Calls |-> IdleCall]
      /\ response = IdleCall
      /\ requests = 0
      /\ render = NoRender
      /\ generate = NoGenerate

\* parsedSections = parseStepByStepResponse(generatedContent)
ParseGuide ==
  /\ parser.pc = "input" /\ parser.template = "step-by-step-guide"
  /\ parser' = [parser EXCEPT
       !.pc = "parsed",
       !.branch = parseStepByStepResponse(parser.content).branch,
       !.sections = parseStepByStepResponse(parser.content).sections]
  /\ UNCHANGED <<now, nextId, files, documents, document_tags, logs, deletedPaths,
                 calls, response, requests, batch, render, generate>>

\* parsedSections = parseAIResponse(generatedContent)
ParseReport ==
  /\ parser.pc = "input" /\ parser.template # "step-by-step-guide"
  /\ parser' = [parser EXCEPT
       !.pc = "parsed",
       !.branch = parseAIResponse(parser.content).branch,
       !.sections = parseAIResponse(parser.content).sections]
  /\ UNCHANGED <<now, nextId, files, documents, document_tags, logs, deletedPaths,
                 calls, response, requests, batch, render, generate>>

NextParse ==
  \/ ParseGuide
  \/ ParseReport

SpecParse == ParseInit /\ [][NextParse]_vars

\* -------------------------------------------------------- getUserAnalytics
\* SUM over a set of joined rows
RECURSIVE SumFileSize(_)
SumFileSize(rows) ==
  IF rows = {} THEN 0
  ELSE LET r == CHOOSE x \in rows : TRUE
       IN  documents[r.d].file_size + SumFileSize(rows \ {r})

\* FROM documents d LEFT JOIN ai_generation_logs agl ON d.id = agl.document_id
\* WHERE d.user_id = ?: one row per matching log entry, and one row with no
\* log entry (0) for a document that has none
Joined(userId) ==
  UNION {LET matching == {i \in 1..Len(logs) : logs[i].document_id = d}
         IN  IF matching = {} THEN {[d |-> d, agl |-> 0]}
             ELSE {[d |-> d, agl |-> i] : i \in matching}
         : d \in {x \in DOMAIN documents : documents[x].user_id = userId}}

\* the summary query: COUNT(DISTINCT d.id), COUNT(DISTINCT d.template_type),
\* SUM(d.file_size), COUNT(CASE WHEN d.is_favorite = TRUE THEN 1 END); an
\* aggregate query without GROUP BY returns one row whatever it selects, and
\* SUM of no rows is NULL, here the empty sequence
SummaryStats(userId) ==
  LET rows == Joined(userId) IN
  [total_documents |-> Cardinality({r.d : r \in rows}),
   templates_used |-> Cardinality({documents[r.d].template_type : r \in rows}),
   total_storage_bytes |-> IF rows = {} THEN <<>> ELSE <<SumFileSize(rows)>>,
   favorite_documents |-> Cardinality({r \in rows : documents[r.d].is_favorite})]

\* the first query: the user's successful log entries counted by template;
\* every entry of the model is younger than the window of `days` days and
\* of the same day
DailyActivity(userId) ==
  {[template_type |-> tmpl,
    count |-> Cardinality({i \in 1..Len(logs) :
                 /\ logs[i].user_id = userId /\ logs[i].success
                 /\ logs[i].template_type = tmpl})] :
     tmpl \in {logs[i].template_type : i \in {j \in 1..Len(logs) :
                 logs[j].user_id = userId /\ logs[j].success}}}

\* createConnection and the first SELECT
AnalyticsDaily(c, u) ==
  /\ Accept(c)
  /\ Start(c, [IdleCall EXCEPT !.op = "analytics", !.pc = "summary", !.user = u,
                               !.ret = DailyActivity(u)])
  /\ UNCHANGED <<now, nextId, files, documents, document_tags, logs, deletedPaths>>

\* the summary SELECT and return { dailyActivity, summary: summaryStats[0] || {} }
AnalyticsSummary(c) ==
  /\ calls[c].op = "analytics" /\ calls[c].pc = "summary"
  /\ Finish(c, [calls[c] EXCEPT
       !.pc = "done",
       !.ret = {[dailyActivity |-> calls[c].ret, summary |-> SummaryStats(calls[c].user)]}])
  /\ UNCHANGED <<now, nextId, files, documents, document_tags, logs, deletedPaths, requests>>

\* a SELECT is rejected: catch, console.error, throw error
AnalyticsFail(c) ==
  /\ calls[c].op = "analytics" /\ calls[c].pc = "summary"
  /\ Finish(c, [calls[c] EXCEPT !.pc = "failed", !.ret = {}, !.err = "Database error"])
  /\ UNCHANGED <<now, nextId, files, documents, document_tags, logs, deletedPaths, requests>>

\* the store operations together with the analytics query
NextAnalytics ==
  \/ Next
  \/ \E c \in Calls, u \in Users : AnalyticsDaily(c, u)
  \/ \E c \in Calls : AnalyticsSummary(c)
  \/ \E c \in Calls : AnalyticsFail(c)

SpecAnalytics == Init /\ [][NextAnalytics]_vars

\* ----------------------------------------------- generateDocxFromTemplate
MaxSteps == 2

\* A property of the request object is a sequence of at most one value:
\* empty when the property is undefined, else the text it holds.
Falsy(v) == v = <<>> \/ v = << <<>> >>

\* a || b, for a property a and a text b
OrElse(v, d) == IF Falsy(v) THEN d ELSE v[1]

\* undefined, '', 'a'
SectionInputs == {<<>>, << <<>> >>, << <<"a">> >>}

TitleInputs ==
  {[guide_title |-> <<>>, document_title |-> <<>>, classification |-> <<>>],
   [guide_title |-> <<>>, document_title |-> << <<"D">> >>, classification |-> << <<"C">> >>],
   [guide_title |-> << <<"G">> >>, document_title |-> << <<"D">> >>, classification |-> <<>>]}

\* step.image: absent, or { url } with a url that is a string or is not one
ImageInputs ==
  {[kind |-> "absent", url |-> <<>>],
   [kind |-> "string", url |-> <<"/uploads/", "ok.png">>],
   [kind |-> "string", url |-> <<"/uploads/", "gone.png">>],
   [kind |-> "string", url |-> <<"http://localhost:3001", "/uploads/", "ok.png">>],
   [kind |-> "string", url |-> <<"https://cdn/", "x.png">>],
   [kind |-> "number", url |-> <<>>]}

StepInputs ==
  {[title |-> IF image.kind = "absent" THEN <<>> ELSE << <<"t">> >>,
    description |-> << <<"d">> >>, notes |-> <<>>, image |-> image] : image \in ImageInputs}

\* the files of the uploads directory that can be read
Uploaded == {<<"/uploads/", "ok.png">>}

\* the literal a section of the render context falls back to
Placeholder(key) ==
  CASE key = "guide_overview" -> <<"Guide overview not available">>
    [] key = "target_audience" -> <<"General users">>
    [] key = "prerequisites" -> <<"No specific prerequisites">>
    [] key = "steps_content" -> <<"Steps not available">>
    [] key = "conclusion" -> <<"Conclusion not available">>
    [] key = "initial_findings" -> <<"Initial findings not available">>
    [] key = "executive_summary" -> <<"Executive summary not available">>
    [] key = "timeline_events" -> <<"Timeline not available">>
    [] key = "risk_impact" -> <<"Risk assessment not available">>
    [] key = "resolution_actions" -> <<"Resolution actions not available">>
    [] key = "lessons_learned" -> <<"Lessons learned not available">>

\* the section keys of a template type
SectionKeys(templateType) ==
  IF templateType = "step-by-step-guide" THEN SeqToSet(GuideKeys) ELSE SeqToSet(ReportKeys)

\* let templateData = { guide_title, classification, date }, spread with the
\* sections of the template type
TemplateData(templateType, data, t) ==
  LET fixed == [guide_title |-> OrElse(data.guide_title,
                                  OrElse(data.document_title, <<"Document Title">>)),
                classification |-> OrElse(data.classification, <<"Standard">>),
                date |-> <<ToString(t)>>]
      sections == [key \in SectionKeys(templateType) |-> OrElse(data[key], Placeholder(key))]
  IN  IF templateType = "step-by-step-guide"
        THEN sections @@ fixed
        ELSE sections @@ fixed @@
             [document_title |-> OrElse(data.document_title, <<"Root Cause Analysis Report">>)]

\* url.startsWith('/uploads/')
StartsWithUploads(url) == url # <<>> /\ url[1] = "/uploads/"

\* url.replace('http://localhost:3001', '')
RECURSIVE ReplaceHost(_)
ReplaceHost(url) ==
  IF url = <<>> THEN <<>>
  ELSE IF Head(url) = "http://localhost:3001" THEN Tail(url)
  ELSE <<Head(url)>> \o ReplaceHost(Tail(url))

\* step.image.url.startsWith throws a TypeError when the url is not a string
UrlNotAString(step) == step.image.kind = "number"

\* the imageUrl of a step: null, here empty, when step.image && step.image.url
\* is falsy
ImageUrl(step) ==
  IF step.image.kind = "absent" \/ step.image.url = <<>> THEN <<>>
  ELSE IF StartsWithUploads(step.image.url) THEN <<step.image.url>>
  ELSE <<ReplaceHost(step.image.url)>>

\* data.structuredSteps.map((step, index) => ...)
ProcessedSteps(steps) ==
  [i \in 1..Len(steps) |->
     [step_number |-> i,
      step_title |-> OrElse(steps[i].title, <<"Step ", ToString(i)>>),
      step_description |-> OrElse(steps[i].description, <<>>),
      step_image |-> ImageUrl(steps[i]),
      step_notes |-> OrElse(steps[i].notes, <<>>)]]

\* the image module's getImage: the promise of fs.readFile for a value under
\* /uploads/, else null
getImage(tagValue) ==
  IF tagValue # <<>> /\ StartsWithUploads(tagValue) THEN "promise" ELSE "null"

\* what doc.render hands the image module for each step: nothing when the
\* tag value is null, else what getImage returns
Handed(processed) ==
  [i \in 1..Len(processed) |->
     IF Falsy(processed[i].step_image) THEN "none"
     ELSE getImage(processed[i].step_image[1])]

\* the reads that reject: the file under /uploads/ cannot be read
Rejected(processed) ==
  {i \in 1..Len(processed) :
     /\ Handed(processed)[i] = "promise"
     /\ processed[i].step_image[1] \notin Uploaded}

\* the renderer is called with the sections of a template type, with or
\* without structuredSteps
RenderInit ==
  \E templateType \in {"step-by-step-guide", "standard"}, titles \in TitleInputs,
     n \in 0..MaxSteps, given \in BOOLEAN :
    \E sections \in [SectionKeys(templateType) -> SectionInputs],
       steps \in [1..n -> StepInputs] :
      /\ templateType = "standard" => n = 0 /\ ~given
      /\ n > 0 => given
      /\ render = [NoRender EXCEPT
           !.pc = "access", !.templateType = templateType,
           !.data = sections @@ titles,
           !.structuredSteps = IF given THEN <<steps>> ELSE <<>>]
      /\ now = 0
      /\ nextId = 0
      /\ files = <<>>
      /\ documents = <<>>
      /\ document_tags = <<>>
      /\ logs = <<>>
      /\ deletedPaths = {}
      /\ calls = [c \in Calls |-> IdleCall]
      /\ response = IdleCall
      /\ requests = 0
      /\ batch = NoBatch
      /\ parser = NoParse
      /\ generate = NoGenerate

\* await fs.access(templatePath)
RenderAccess ==
  /\ render.pc = "access"
  /\ render' = [render EXCEPT !.pc = "read"]
  /\ UNCHANGED <<now, nextId, files, documents, document_tags, logs, deletedPaths,
                 calls, response, requests, batch, parser, generate>>

\* fs.access rejects: 'Template file not found', rethrown by the outer catch
RenderAccessFail ==
  /\ render.pc = "access"
  /\ render' = [render EXCEPT !.pc = "failed", !.err = "Template file not found"]
  /\ UNCHANGED <<now, nextId, files, documents, document_tags, logs, deletedPaths,
                 calls, response, requests, batch, parser, generate>>

\* const templateContent = await fs.readFile(templatePath)
RenderRead ==
  /\ render.pc = "read"
  /\ render' = [render EXCEPT !.pc = "build"]
  /\ UNCHANGED <<now, nextId, files, documents, document_tags, logs, deletedPaths,
                 calls, response, requests, batch, parser, generate>>

\* fs.readFile rejects, rethrown by the outer catch
RenderReadFail ==
  /\ render.pc = "read"
  /\ render' = [render EXCEPT !.pc = "failed", !.err = "Template read failed"]
  /\ UNCHANGED <<now, nextId, files, documents, document_tags, logs, deletedPaths,
                 calls, response, requests, batch, parser, generate>>

\* the steps the template data is built from
StepsGiven == IF render.structuredSteps = <<>> THEN <<>> ELSE render.structuredSteps[1]

\* the map over structuredSteps throws
StepsThrow ==
  /\ render.templateType = "step-by-step-guide"
  /\ \E i \in 1..Len(StepsGiven) : UrlNotAString(StepsGiven[i])

\* the template data is built, doc.render(templateData) returns and the
\* buffer is generated and returned
RenderDoc(t) ==
  /\ render.pc = "build" /\ ~StepsThrow
  /\ t = now
  /\ LET processed == ProcessedSteps(StepsGiven) IN
     render' = [render EXCEPT
       !.pc = "rendered",
       !.templateData = TemplateData(render.templateType, render.data, t),
       !.steps = processed,
       !.handed = Handed(processed),
       !.rejected = Rejected(processed)]
  /\ UNCHANGED <<now, nextId, files, documents, document_tags, logs, deletedPaths,
                 calls, response, requests, batch, parser, generate>>

\* step.image.url.startsWith is not a function: the TypeError leaves the map
\* and the outer catch rethrows it as 'Failed to generate DOCX: ...'
RenderStepsFail ==
  /\ render.pc = "build" /\ StepsThrow
  /\ render' = [render EXCEPT !.pc = "failed", !.err = "TypeError"]
  /\ UNCHANGED <<now, nextId, files, documents, document_tags, logs, deletedPaths,
                 calls, response, requests, batch, parser, generate>>

\* doc.render throws on the template: 'Template rendering failed: ...'
RenderDocFail(t) ==
  /\ render.pc = "build" /\ ~StepsThrow
  /\ t = now
  /\ render' = [render EXCEPT
       !.pc = "failed", !.err = "Template rendering failed",
       !.templateData = TemplateData(render.templateType, render.data, t)]
  /\ UNCHANGED <<now, nextId, files, documents, document_tags, logs, deletedPaths,
                 calls, response, requests, batch, parser, generate>>

\* A promise getImage returned rejects after the synchronous doc.render has
\* returned, and nothing awaits it or catches its rejection: the process
\* prints a warning or, where unhandled rejections are fatal, terminates.
RejectionUnhandled(fatal) ==
  /\ render.pc = "rendered" /\ render.rejected # {}
  /\ render' = [render EXCEPT !.pc = "settled", !.terminated = fatal]
  /\ UNCHANGED <<now, nextId, files, documents, document_tags, logs, deletedPaths,
                 calls, response, requests, batch, parser, generate>>

NextRender ==
  \/ RenderAccess
  \/ RenderAccessFail
  \/ RenderRead
  \/ RenderReadFail
  \/ \E t \in Times : RenderDoc(t)
  \/ RenderStepsFail
  \/ \E t \in Times : RenderDocFail(t)
  \/ \E fatal \in BOOLEAN : RejectionUnhandled(fatal)

SpecRender == RenderInit /\ [][NextRender]_vars

\* ------------------------------------------- route POST /api/generate-document
\* req.body.template: undefined or a template id
TemplateInputs == {<<>>, <<"incident-report">>, <<"step-by-step-guide">>, <<"unknown">>}

\* req.body.sections: undefined, or an object with or without structuredSteps
SectionsInputs == {<<>>, <<"sections">>, <<"sections", "structuredSteps">>}

\* the identifiers bound in the scope of the routes module: its own
\* requires and the router; DOCUMENT_TEMPLATES, callAzureOpenAI, the two
\* parsers and generateDocxFromTemplate are declared in server.js only
RoutesScope == {"express", "router", "authenticateToken", "documentStorage", "path", "fs"}

\* an authenticated request reaches the route; the database holds nothing or
\* one document of the first user
GenerateInit ==
  \E u \in Users, template \in TemplateInputs, sections \in SectionsInputs,
     configured \in BOOLEAN, seeded \in BOOLEAN :
    LET filePath == generateDocumentPath(Email("u1"), "rca", <<"Q", "!", " ", "1">>, "docx", 0) IN
    /\ generate = [NoGenerate EXCEPT
         !.pc = "request", !.user = u, !.template = template, !.sections = sections,
         !.configured = configured]
    /\ now = 0
    /\ nextId = IF seeded THEN 1 ELSE 0
    /\ files = IF seeded THEN Put(<<>>, filePath, 2) ELSE <<>>
    /\ documents = IF seeded
                     THEN <<DocumentRow(1, "u1", <<"Q", "!", " ", "1">>, "rca", filePath, 2, 0)>>
                     ELSE <<>>
    /\ document_tags = <<>>
    /\ logs = IF seeded THEN <<LogRow("u1", 1, "rca")>> ELSE <<>>
    /\ deletedPaths = {}
    /\ calls = [c \in Calls |-> IdleCall]
    /\ response = IdleCall
    /\ requests = 0
    /\ batch = NoBatch
    /\ parser = NoParse
    /\ render = NoRender

\* if (!template || !sections) return res.status(400)
GenerateInvalid ==
  /\ generate.pc = "request"
  /\ generate.template = <<>> \/ generate.sections = <<>>
  /\ generate' = [generate EXCEPT
       !.pc = "responded", !.status = 400,
       !.error = "Missing required fields: template and sections"]
  /\ UNCHANGED <<now, nextId, files, documents, document_tags, logs, deletedPaths,
                 calls, response, requests, batch, parser, render>>

\* if (!AZURE_OPENAI_CONFIG.endpoint || !AZURE_OPENAI_CONFIG.apiKey)
\*   return res.status(500)
GenerateNotConfigured ==
  /\ generate.pc = "request"
  /\ generate.template # <<>> /\ generate.sections # <<>>
  /\ ~generate.configured
  /\ generate' = [generate EXCEPT
       !.pc = "responded", !.status = 500, !.error = "Azure OpenAI not configured"]
  /\ UNCHANGED <<now, nextId, files, documents, document_tags, logs, deletedPaths,
                 calls, response, requests, batch, parser, render>>

\* const templateConfig = DOCUMENT_TEMPLATES[template]: the identifier is not
\* bound in the module, the ReferenceError is thrown before the first await
\* and the catch block answers 500
GenerateLookupThrows ==
  /\ generate.pc = "request"
  /\ generate.template # <<>> /\ generate.sections # <<>>
  /\ generate.configured
  /\ "DOCUMENT_TEMPLATES" \notin RoutesScope
  /\ generate' = [generate EXCEPT
       !.pc = "responded", !.status = 500, !.error = "Failed to generate document",
       !.details = "DOCUMENT_TEMPLATES is not defined"]
  /\ UNCHANGED <<now, nextId, files, documents, document_tags, logs, deletedPaths,
                 calls, response, requests, batch, parser, render>>

NextGenerate ==
  \/ GenerateInvalid
  \/ GenerateNotConfigured
  \/ GenerateLookupThrows

SpecGenerate == GenerateInit /\ [][NextGenerate]_vars

\* ----------------------------------------------------- route error mapping
\* the status the catch block of the route around a store operation answers
\* a thrown error with; "save" stands for the generate-document route
RouteStatus(op, err) ==
  IF op = "get" THEN (IF err = "Document not found" THEN 404 ELSE 500)
  ELSE 500

\* the messages of the errors that can reach the catch block of a route
RouteErrors(op) ==
  IF op = "update"
    THEN {"Document not found", "No valid updates provided", "Database error"}
  ELSE IF op = "save"
    THEN {"Failed to save document", "DOCUMENT_TEMPLATES is not defined"}
  ELSE {"Document not found", "Database error"}

\* the kind of failure an error message stands for
FailureKind(err) ==
  IF err = "Document not found" THEN "not_found"
  ELSE IF err = "No valid updates provided" THEN "validation"
  ELSE IF err = "DOCUMENT_TEMPLATES is not defined" THEN "internal"
  ELSE "persistence"

\* ===================================================================
\* Properties
\* ===================================================================
StoreOps == {"get", "update", "delete", "tags"}

\* every call the state knows: those in flight and the one that just ended
Known == {calls[c] : c \in Calls} \cup {response}

TrimmedTagSet(tags) == {Trim(tags[i]) : i \in 1..Len(tags)}

LogEntriesFor(documentId) == {i \in 1..Len(logs) : logs[i].document_id = documentId}

\* the documents of users other than u keep their row, tag rows and file
OthersUntouched(u) ==
  \A d \in DOMAIN documents :
    documents[d].user_id # u =>
      /\ d \in DOMAIN documents'
      /\ documents'[d] = documents[d]
      /\ TagRowsOf(document_tags', d) = TagRowsOf(document_tags, d)
      /\ documents[d].file_path \in DOMAIN files =>
           /\ documents[d].file_path \in DOMAIN files'
           /\ files'[documents[d].file_path] = files[documents[d].file_path]

C2_LastWriterWins ==
  \A e \in response.ended :
    (/\ response.op = "tags" /\ response.pc = "done"
     /\ response.ended = {e} /\ e.op = "tags" /\ e.pc = "done"
     /\ \A c \in Calls : calls[c].doc # response.doc
     /\ response.doc \in DOMAIN documents) =>
       SeqToSet(TagNamesOf(document_tags, response.doc)) \in
         {TrimmedTagSet(response.tags), TrimmedTagSet(e.tags)}

\* C3: no two documents have the same file_path, and the path of a deleted
\* document is not the path of a document in the table.
C3_FilePathsUnique ==
  /\ \A d1, d2 \in DOMAIN documents :
       d1 # d2 => documents[d1].file_path # documents[d2].file_path
  /\ \A d \in DOMAIN documents : documents[d].file_path \notin deletedPaths

C5_WriteThenInsertThenLog ==
  \A r \in Known :
    r.op = "save" =>
      /\ (r.logsAppended > 0 \/ LogEntriesFor(r.doc) # {}) => r.rowsInserted > 0
      /\ (r.rowsInserted > 0 \/ r.doc \in DOMAIN documents) => r.wrote
      /\ r.pc \in {"insert", "log", "done"} => r.wrote
      /\ r.pc \in {"log", "done"} => r.rowsInserted > 0

C5_Witness ==
  /\ response.op = "save" /\ response.logsAppended = 1
  /\ response.rowsInserted = 1 /\ response.wrote
  /\ LogEntriesFor(response.doc) # {}

\* C6: a saveDocument call whose file write failed has ended with an error,
\* inserted no metadata row and appended no GenerationLog entry.
C6_WriteFailureLeavesTablesAlone ==
  \A r \in Known :
    (r.op = "save" /\ r.writeFailed) =>
      /\ r.pc = "failed"
      /\ r.err = "Failed to save document"
      /\ r.rowsInserted = 0 /\ r.logsAppended = 0
      /\ r.doc \notin DOMAIN documents
      /\ LogEntriesFor(r.doc) = {}

C6_Witness ==
  response.op = "save" /\ response.writeFailed /\ response.pc = "failed"

\* C7: every tag row refers to a document that has a metadata row.
C7_NoOrphanTagRows ==
  \A i \in 1..Len(document_tags) : document_tags[i].document_id \in DOMAIN documents

\* a deleteDocument call has removed a document that had tag rows
C7_Witness ==
  /\ response.op = "delete" /\ response.pc = "done"
  /\ response.removed # <<>>
  /\ response.doc \notin DOMAIN documents

\* C8: when an addDocumentTags(id, userId, T) call that ran with no concurrent
\* call returns, the tags getDocument returns are exactly the trimmed tags of T.
C8_TagsAreReplaced ==
  (response.op = "tags" /\ response.pc = "done" /\ response.solo) =>
    \A r \in getDocument(response.doc, response.user) :
      SeqToSet(r.tags) = TrimmedTagSet(response.tags)

\* C9: when an addDocumentTags call that ran with no concurrent call fails
\* after ownership was verified, the document's tag rows are those it had
\* when the call began (the rows the call's own DELETE removed).
C9_TagsAllOrNothing ==
  (response.op = "tags" /\ response.pc = "failed" /\ response.solo) =>
    TagRowsOf(document_tags, response.doc) = response.removed

\* C10: a deleteDocument call whose file removal failed because the file was
\* missing goes on to the DELETE, reports no file error, and once it has
\* returned successfully the metadata row is gone.
C10_MissingFileTolerated ==
  \A r \in Known :
    (r.op = "delete" /\ r.unlinkFailed) =>
      /\ r.pc \in {"delrow", "done", "failed"}
      /\ r.pc = "failed" => r.err = "Database error"
      /\ r.pc = "done" => OwnedRows(r.doc, r.user) = {}

C10_Witness ==
  /\ response.op = "delete" /\ response.unlinkFailed /\ response.pc = "done"
  /\ response.doc \notin DOMAIN documents

\* the step in which the call in slot c runs its UPDATE statement
UpdateRuns(c) ==
  /\ calls[c].op = "update" /\ calls[c].pc = "update"
  /\ calls'[c].pc = "reget"

\* C11: the UPDATE of an updateDocument call changes no column other than
\* the allow-listed keys of its update set and updated_at, in any row, and
\* leaves the tag rows and the rows' existence alone.
C11_OnlyAllowListedFieldsChange ==
  [][\A c \in Calls :
       UpdateRuns(c) =>
         /\ document_tags' = document_tags
         /\ DOMAIN documents' = DOMAIN documents
         /\ \A d \in DOMAIN documents :
              \A k \in DOMAIN documents[d] :
                k \notin (calls[c].updates.keys \cap {"title", "is_favorite", "is_archived"})
                          \cup {"updated_at"}
                  => documents'[d][k] = documents[d][k]]_vars

\* an update whose set held a key outside the allow-list has returned the
\* favourited document
C11_Witness ==
  /\ response.op = "update" /\ response.pc = "done"
  /\ "not_allowed" \in response.updates.keys
  /\ \E r \in response.ret : r.row.is_favorite /\ r.row.created_at < r.row.updated_at

\* C12: an updateDocument call whose update set holds no allow-listed key
\* ends with 'No valid updates provided' in the step that accepted it, that
\* step leaves every document row as it was, and no such call ever reaches
\* its UPDATE statement.
C12_NoValidUpdatesRejected ==
  [][/\ (/\ response'.op = "update"
          /\ response'.updates.keys \cap {"title", "is_favorite", "is_archived"} = {}
          /\ requests' # requests) =>
            /\ response'.pc = "failed"
            /\ response'.err = "No valid updates provided"
            /\ documents' = documents
     /\ \A c \in Calls :
          calls'[c].op = "update" =>
            calls'[c].updates.keys \cap {"title", "is_favorite", "is_archived"} # {}]_vars

C12_Witness ==
  /\ response.op = "update" /\ response.pc = "failed"
  /\ response.err = "No valid updates provided"
  /\ response.updates.keys = {"not_allowed"}
  /\ documents # <<>>

\* C13: the UPDATE of an updateDocument call sets updated_at of the rows it
\* matches to the time of the statement, and created_at <= updated_at holds
\* for every document row in every reachable state.
C13_UpdatedAtRefreshed ==
  [][/\ \A c \in Calls :
          UpdateRuns(c) =>
            \A d \in OwnedRows(calls[c].doc, calls[c].user) :
              d \in DOMAIN documents' /\ documents'[d].updated_at = now'
     /\ \A d \in DOMAIN documents : documents[d].created_at <= documents[d].updated_at
     /\ \A d \in DOMAIN documents' :
          documents'[d].created_at <= documents'[d].updated_at]_vars

C13_Witness ==
  /\ response.op = "update" /\ response.pc = "done"
  /\ \E r \in response.ret : r.row.updated_at = now /\ r.row.created_at < now

BatchOwns(d) == d \in DOMAIN documents /\ documents[d].user_id = batch.user

\* C15: a batch over documentIds [d1..dn] answers with exactly one result per
\* id, in order; an id that fails (not owned, not found, invalid action) is
\* reported with success false, and the ids after it still get the action:
\* a deleted id is gone, a favourited or archived id carries the flag, and a
\* document of the caller is left without the action only by an id whose
\* store call failed.
C15_BatchIsolatesFailures ==
  LET n == Len(batch.results) IN
  /\ n <= Len(batch.ids)
  /\ \A k \in 1..n : batch.results[k].documentId = batch.ids[k]
  /\ \A k \in 1..n : ~batch.results[k].success => batch.results[k].error # ""
  /\ batch.pc = "sent" =>
       /\ n = Len(batch.ids) /\ batch.status = 200
       /\ \A k \in 1..n :
            LET d == batch.ids[k]  r == batch.results[k] IN
            /\ batch.action \notin {"delete", "favorite", "archive"} =>
                 ~r.success /\ r.error = "Invalid batch action"
            /\ (batch.action = "delete" /\ r.success) => d \notin DOMAIN documents
            /\ (batch.action = "delete" /\ BatchOwns(d)) => r.error = "Database error"
            /\ (batch.action = "favorite" /\ r.success) =>
                 BatchOwns(d) /\ documents[d].is_favorite = batch.flag
            /\ (batch.action = "archive" /\ r.success) =>
                 BatchOwns(d) /\ documents[d].is_archived = batch.flag
            /\ (batch.action \in {"favorite", "archive"} /\ BatchOwns(d)) =>
                 r.success \/ r.error = "Database error"
            /\ (batch.action \in {"favorite", "archive"} /\ ~BatchOwns(d)) => ~r.success

\* the first id was not the caller's and the second one was favourited
C15_Witness ==
  /\ batch.pc = "sent" /\ batch.action = "favorite" /\ Len(batch.ids) = 2
  /\ ~batch.results[1].success /\ batch.results[1].error = "Document not found"
  /\ batch.ids[1] \in DOMAIN documents
  /\ batch.results[2].success /\ documents[batch.ids[2]].is_favorite

\* C16: the status a route answers a failed store operation with differs from
\* the status it gives to every failure of another kind (not found,
\* validation, upstream, persistence) that can reach the same route.
C16_StatusDistinguishesKind ==
  response.pc = "failed" =>
    \A e \in RouteErrors(response.op) :
      FailureKind(e) # FailureKind(response.err) =>
        RouteStatus(response.op, e) # RouteStatus(response.op, response.err)

\* str has sub as a substring
Contains(str, sub) ==
  \E i \in 1..(Len(str) - Len(sub) + 1) : SubSeq(str, i, i + Len(sub) - 1) = sub

\* the conjunction the listing promises
Satisfies(row, userId, options) ==
  /\ row.user_id = userId
  /\ row.is_archived = options.archived
  /\ options.search # <<>> =>
       Contains(row.title, options.search) \/ Contains(row.content_preview, options.search)
  /\ options.templateType # "" => row.template_type = options.templateType
  /\ options.favorites => row.is_favorite

\* C17: a getUserDocuments call that has returned gave exactly the documents
\* whose owner is userId, whose is_archived equals the archived option and
\* which, for each of search, templateType and favorites that was supplied,
\* contain search in title or preview, have that template_type, are
\* favourites; and its total is the number of those documents.
C17_ListMatchesFilter ==
  (response.op = "list" /\ response.pc = "done") =>
    LET wanted == {i \in DOMAIN documents :
                     Satisfies(documents[i], response.user, response.options)} IN
    /\ {r.row.id : r \in response.ret} = wanted
    /\ response.total = Cardinality(wanted)

\* the section keys of the parsed text's template, in their fixed order
KeysOf(tmpl) == IF tmpl = "step-by-step-guide" THEN GuideKeys ELSE ReportKeys

\* the parts of the parsed text between its "---" delimiters
PartsOf(content) == Split(content, Dashes)

\* C18: a report text that splits on "---" into exactly 6 parts and a guide
\* text that splits into exactly 5 parts are parsed so that the i-th section
\* key of the template holds the i-th part with leading and trailing
\* whitespace removed, for every i.
C18_StrictSplitAssignsTrimmedParts ==
  (parser.pc = "parsed" /\ Len(PartsOf(parser.content)) = Len(KeysOf(parser.template))) =>
    \A i \in 1..Len(KeysOf(parser.template)) :
      LET part == PartsOf(parser.content)[i]
          section == parser.sections[KeysOf(parser.template)[i]]
      IN  /\ section = TrimLeft(TrimRight(part))
          /\ section = <<>> \/ (Head(section) \notin {" ", "\n"}
                                 /\ section[Len(section)] \notin {" ", "\n"})

\* a text of exactly as many parts as sections was parsed, and a part had
\* whitespace around it
C18_Witness ==
  /\ parser.pc = "parsed" /\ parser.template = "step-by-step-guide"
  /\ Len(PartsOf(parser.content)) = 5
  /\ PartsOf(parser.content)[2] = <<" ", "a", "\n">>
  /\ parser.sections["target_audience"] = <<"a">>

\* C19: a text with more "---"-separated parts than the template has
\* sections is not assigned by the strict split.
C19_StrictOnlyOnExactCount ==
  (parser.pc = "parsed" /\ Len(PartsOf(parser.content)) > Len(KeysOf(parser.template))) =>
    parser.branch # "strict"

\* C20: a text with fewer "---"-separated parts than the template has
\* sections, N, but at least N non-empty blank-line-separated paragraphs is
\* parsed by the paragraph fallback: the i-th section key holds the i-th
\* paragraph, for both template kinds.
C20_ParagraphFallback ==
  LET keys == KeysOf(parser.template)
      paragraphs == SelectSeq(Split(parser.content, BlankLine),
                              LAMBDA para : TrimLeft(TrimRight(para)) # <<>>)
  IN  (/\ parser.pc = "parsed"
       /\ Len(PartsOf(parser.content)) < Len(keys)
       /\ Len(paragraphs) >= Len(keys)) =>
        \A i \in 1..Len(keys) : parser.sections[keys[i]] = paragraphs[i]

\* the non-empty blank-line-separated paragraphs of the parsed text
ParagraphsOf(content) ==
  SelectSeq(Split(content, BlankLine), LAMBDA para : TrimLeft(TrimRight(para)) # <<>>)

\* the parsed text meets neither the strict-split nor the paragraph condition
NeitherCondition ==
  /\ parser.pc = "parsed"
  /\ Len(PartsOf(parser.content)) # Len(KeysOf(parser.template))
  /\ Len(PartsOf(parser.content)) < Len(KeysOf(parser.template))
  /\ Len(ParagraphsOf(parser.content)) < Len(KeysOf(parser.template))

Stored == {k \in Known : k.op = "save" /\ k.wrote}

\* the characters of s that are in keep, in order
StrippedTo(s, keep) == SelectSeq(s, LAMBDA ch : ch \in keep)

\* s with each character outside keep turned into an underscore
UnderscoredOutside(s, keep) ==
  [i \in 1..Len(s) |-> IF s[i] \in keep THEN s[i] ELSE "_"]

\* s with each run of whitespace turned into one underscore
RunsToUnderscore(s) ==
  LET first == {i \in 1..Len(s) : s[i] \notin SpaceChars \/ i = 1 \/ s[i - 1] \notin SpaceChars}
      kept == SelectSeq([i \in 1..Len(s) |-> IF i \in first THEN <<s[i]>> ELSE <<>>],
                        LAMBDA e : e # <<>>)
  IN [i \in 1..Len(kept) |-> IF kept[i][1] \in SpaceChars THEN "_" ELSE kept[i][1]]

\* the file name and directory parts that C23 gives, for an owner key
\* sanitised to ownerKey
NamedAsSpecified(k, ownerKey) ==
  LET p == k.path[1] IN
  /\ p.owner = ownerKey
  /\ p.month \in {MonthOf(t) : t \in Times} /\ p.timestamp \in Times
  /\ p.template = k.template
  /\ p.title = RunsToUnderscore(StrippedTo(k.title, AlnumChars \cup {" ", "\n", "-"}))
  /\ p.format = "docx"

C26_DeleteAllOrNothing ==
  \A k \in Known :
    k.op = "delete" =>
      /\ k.pc = "done" => OwnedRows(k.doc, k.user) = {}
      /\ (k.pc = "failed" /\ k.err = "Document not found") => k.path = IdleCall.path
      /\ (k.pc = "failed" /\ k.err = "Database error") =>
           \/ k.unlinkFailed
           \/ OwnedRows(k.doc, k.user) = {}
           \/ k.path[1] \in DOMAIN files

\* the analytics calls that have returned the summary of their user
Summaries == {k \in Known : k.op = "analytics" /\ k.pc = "done"}

\* the ids of the document rows of userId
RowsOf(userId) == {d \in DOMAIN documents : documents[d].user_id = userId}

RECURSIVE TotalSize(_)
TotalSize(ids) ==
  IF ids = {} THEN 0
  ELSE LET d == CHOOSE x \in ids : TRUE IN documents[d].file_size + TotalSize(ids \ {d})

\* C24: the summary of getUserAnalytics(u) reports total_documents equal to
\* the number of u's document rows, total_storage_bytes equal to the sum of
\* their file sizes and favorite_documents equal to the number of them
\* flagged favorite, each document counted once and no other user's counted.
C24_SummaryTotals ==
  response \in Summaries =>
    \A r \in response.ret :
      /\ r.summary.total_documents = Cardinality(RowsOf(response.user))
      /\ r.summary.total_storage_bytes = <<TotalSize(RowsOf(response.user))>>
      /\ r.summary.favorite_documents =
           Cardinality({d \in RowsOf(response.user) : documents[d].is_favorite})

\* the render has come back from doc.render
Rendered == render.pc \in {"rendered", "settled"}

\* the image reference of a step is absent, does not point into the upload
\* area, or points to a file that cannot be read
NoUsableImage(step) ==
  \/ step.image.kind # "string"
  \/ ~StartsWithUploads(ReplaceHost(step.image.url))
  \/ ReplaceHost(step.image.url) \notin Uploaded

\* C22: rendering a guide never fails because of a step image: for every step
\* whose image reference is absent, does not point into the upload area or
\* points to a file that cannot be read, the render completes and the step
\* is rendered with no image.
C22_StepImagesNeverFailRender ==
  /\ render.err # "TypeError"
  /\ ~render.terminated
  /\ Rendered =>
       \A i \in 1..Len(StepsGiven) :
         NoUsableImage(StepsGiven[i]) => render.handed[i] \in {"none", "null"}

\* C25: the render context carries each section unchanged when the key is
\* present and takes the placeholder only when the key is missing; a section
\* that is present but empty is rendered as the empty text.
C25_PlaceholderOnlyWhenMissing ==
  Rendered =>
    \A key \in SectionKeys(render.templateType) :
      render.templateData[key] =
        IF render.data[key] = <<>> THEN Placeholder(key) ELSE render.data[key][1]

\* the steps of the generate-and-store route in the order C27 gives them
Pipeline == <<"model call", "parse", "render", "saveDocument">>

\* C27: the generate-and-store route runs its steps in the order model call,
\* parse, render, saveDocument: a request that passes the validation and the
\* configuration check has run the model call first and then a prefix of
\* the pipeline, and when it answers with an error after the model call or the
\* render failed it has run nothing after the failed step.
C27_PipelineInOrder ==
  (/\ generate.pc = "responded"
   /\ generate.template # <<>> /\ generate.sections # <<>> /\ generate.configured) =>
    /\ generate.ran # <<>>
    /\ Len(generate.ran) <= Len(Pipeline)
    /\ generate.ran = SubSeq(Pipeline, 1, Len(generate.ran))
    /\ generate.status = 500 => generate.ran[Len(generate.ran)] # "saveDocument"

====
